---- MODULE Spec2Model ----
(***************************************************************************)
(* FIRE calculator: the configuration check, the year-stepped trajectory   *)
(* simulator and the AR(1) return generator of src/fire_calculator.py, the *)
(* Monte Carlo loop of src/visualizations.py and the milestone scan of     *)
(* src/app.py.                                                             *)
(*                                                                         *)
(* Python floats are modelled as exact rationals <<n, d>> in lowest terms  *)
(* with d > 0, so that every sum, product and comparison of the simulator  *)
(* is computed exactly.                                                    *)
(***************************************************************************)
EXTENDS Integers, Sequences, FiniteSets, TLC

(***************************************************************************)
(* Bounds of the model.                                                    *)
(***************************************************************************)
\* longest horizon (num_years) explored for the enumerated configurations
MaxYears == 3
\* number of loop iterations explored of the 30-year reference run of main()
RefIters == 2

(***************************************************************************)
(* Exact rational arithmetic standing for float arithmetic.                *)
(***************************************************************************)
Abs(i) == IF i < 0 THEN -i ELSE i

RECURSIVE GCD(_, _)
GCD(a, b) == IF b = 0 THEN a ELSE GCD(b, a % b)

Norm(n, d) ==
    LET g == GCD(Abs(n), d) IN <<n \div g, d \div g>>

R(i) == <<i, 1>>

RAdd(x, y) ==
    LET g == GCD(x[2], y[2])
        l == (x[2] \div g) * y[2]
    IN  Norm(x[1] * (l \div x[2]) + y[1] * (l \div y[2]), l)

RNeg(x) == <<-x[1], x[2]>>

RSub(x, y) == RAdd(x, RNeg(y))

RMul(x, y) ==
    LET g1 == GCD(Abs(x[1]), y[2])
        g2 == GCD(Abs(y[1]), x[2])
    IN  Norm((x[1] \div g1) * (y[1] \div g2), (x[2] \div g2) * (y[2] \div g1))

RLeq(x, y) ==
    LET g == GCD(x[2], y[2])
    IN  x[1] * (y[2] \div g) <= y[1] * (x[2] \div g)

RLt(x, y) == ~RLeq(y, x)

\* x // m for a positive integer m (Python floor division)
RFloorDiv(x, m) == (x[1] \div x[2]) \div m

RECURSIVE RPow(_, _)
RPow(x, k) == IF k <= 0 THEN R(1) ELSE RMul(x, RPow(x, k - 1))

(***************************************************************************)
(* FIREConfig: the validated configuration record.                        *)
(***************************************************************************)
yearly_expenses(cfg) == RMul(cfg.monthly_expenses, R(12))

\* the example configuration of main()
ReferenceConfig ==
    [yearly_wage |-> R(80000),
     monthly_expenses |-> R(4000),
     initial_capital |-> R(50000),
     expected_return_rate |-> <<7, 100>>,
     retirement_safe_withdrawal_rate |-> <<7, 200>>,
     wage_growth_rate |-> <<1, 50>>,
     non_wage_income |-> R(0)]

ReferenceNumYears == 30
ReferenceRetirementYear == 15

\* enumerated configurations, all of them accepted by __post_init__
Configs ==
    [yearly_wage : {R(0), R(1)},
     monthly_expenses : {R(0), <<1, 12>>, <<1, 4>>},
     initial_capital : {R(0), R(4)},
     expected_return_rate : {<<7, 100>>, <<1, 2>>},
     retirement_safe_withdrawal_rate : {<<1, 2>>, R(1)},
     wage_growth_rate : {R(0), <<1, 2>>},
     non_wage_income : {R(0), R(1)}]

\* custom_returns: None, or a list of yearly rates
NoCustomReturns == [given |-> FALSE, list |-> <<>>]

ZeroReturns(k) == [given |-> TRUE, list |-> [i \in 1..k |-> R(0)]]

SwingReturns(k) ==
    [given |-> TRUE,
     list |-> [i \in 1..k |-> IF i % 2 = 1 THEN <<-1, 2>> ELSE <<1, 2>>]]

CustomReturnsChoices ==
    {NoCustomReturns}
      \cup {ZeroReturns(k) : k \in 0..(MaxYears + 1)}
      \cup {SwingReturns(k) : k \in 1..(MaxYears + 1)}

(***************************************************************************)
(* State.                                                                  *)
(***************************************************************************)
VARIABLES
    config,                 \* self.config
    num_years,              \* arguments of calculate_fire_trajectory
    retirement_year,
    custom_returns,
    pc,                     \* "call", "loop", "returned", "raised"
    error,                  \* exception raised, "" when none
    year,                   \* loop variable: iterations completed so far
    total,                  \* locals of calculate_fire_trajectory
    yearly_income,
    yearly_wage,
    wealth_data,
    income_data,
    breakeven_year,
    fire_achieved,
    last_million_milestone

VARIABLES
    initial_return,         \* arguments of generate_monte_carlo_returns
    phi,
    sigma,
    rng,                    \* state of the global numpy random source
    gen_pc,                 \* per call: "idle", "draw", "done"
    deviations,             \* per call: the local list deviations
    returns,                \* per call: the list returned
    entry_rng,              \* per call: the random source found at entry
    last_million,           \* milestone scan of app.py
    milestones,
    index                   \* rows of wealth_df scanned so far

gen == <<initial_return, phi, sigma, rng, gen_pc, deviations, returns,
         entry_rng>>

scan == <<last_million, milestones, index>>

vars == <<config, num_years, retirement_year, custom_returns, pc, error, year,
          total, yearly_income, yearly_wage, wealth_data, income_data,
          breakeven_year, fire_achieved, last_million_milestone,
          initial_return, phi, sigma, rng, gen_pc, deviations, returns,
          entry_rng, last_million, milestones, index>>

args == <<config, num_years, retirement_year, custom_returns>>

locals == <<year, total, yearly_income, yearly_wage, wealth_data, income_data,
            breakeven_year, fire_achieved, last_million_milestone>>

Million == 1000000

(***************************************************************************)
(* The pieces of calculate_fire_trajectory.                                *)
(***************************************************************************)
\* variant: the comparison of line 72 off by one
InvalidParameters_OffByOne(ny, ry) == ry > ny + 1

\* line 72: the only validation of the run parameters
InvalidParameters(ny, ry) == ry > ny

\* variant: the 0-based loop variable recorded as the year
YearIndex_ZeroBased(y) == y

\* lines 111, 112, 121: the 1-based year recorded for the loop variable
YearIndex(y) == y + 1

\* lines 75-83: the locals before the loop
EntryFrame(cfg) ==
    [year |-> 0,
     total |-> cfg.initial_capital,
     yearly_income |-> RAdd(cfg.yearly_wage, cfg.non_wage_income),
     yearly_wage |-> cfg.yearly_wage,
     wealth_data |-> <<>>,
     income_data |-> <<>>,
     breakeven_year |-> -1,
     fire_achieved |-> FALSE,
     last_million_milestone |-> RFloorDiv(cfg.initial_capital, Million)]

\* line 89: truthiness of the custom_returns argument (None and [] are falsy)
Truthy(cr) == cr.given /\ Len(cr.list) > 0

\* line 88: custom_returns[year] raises IndexError past the end of the list
IndexOutOfRange(cr, y) == Truthy(cr) /\ y >= Len(cr.list)

\* variant: custom_returns never consulted
ReturnRate_IgnoreCustom(cr, y, cfg) == cfg.expected_return_rate

\* lines 87-91
ReturnRate(cr, y, cfg) ==
    IF Truthy(cr) THEN cr.list[y + 1] ELSE cfg.expected_return_rate

\* variant: growth also applied in the retirement year
PreRetirement_OneYearLate(y, ry) == y < ry

\* variant: the loop variable taken as 1-based
PreRetirement_OneYearEarly(y, ry) == y + 1 < ry - 1

\* line 94
PreRetirement(y, ry) == y < ry - 1

\* variant: the year's investment return left out of the update
NewTotal_NoYield(t, return_rate, income, cfg) ==
    RAdd(t, RSub(income, yearly_expenses(cfg)))

\* variant: wealth clamped at zero
NewTotal_Clamped(t, return_rate, income, cfg) ==
    LET n == RAdd(t, RSub(RAdd(RMul(t, return_rate), income),
                          yearly_expenses(cfg)))
    IN  IF RLt(n, R(0)) THEN R(0) ELSE n

\* line 103
NewTotal(t, return_rate, income, cfg) ==
    RAdd(t, RSub(RAdd(RMul(t, return_rate), income), yearly_expenses(cfg)))

\* line 104
PassiveIncome(t, cfg) == RMul(t, cfg.retirement_safe_withdrawal_rate)

\* variant: strict comparison
FireCheck_Strict(achieved, passive_income, cfg) ==
    /\ ~achieved
    /\ RLt(yearly_expenses(cfg), RAdd(passive_income, cfg.non_wage_income))

\* variant: the fire_achieved latch not consulted
FireCheck_NoLatch(achieved, passive_income, cfg) ==
    RLeq(yearly_expenses(cfg), RAdd(passive_income, cfg.non_wage_income))

\* lines 115-119
FireCheck(achieved, passive_income, cfg) ==
    /\ ~achieved
    /\ RLeq(yearly_expenses(cfg), RAdd(passive_income, cfg.non_wage_income))

\* lines 86-121: one iteration of the loop, from the locals f to the new locals
LoopBody(f, cfg, ry, cr) ==
    LET return_rate == ReturnRate(cr, f.year, cfg)
        wage_growth == RMul(f.yearly_wage, cfg.wage_growth_rate)
        wage == IF PreRetirement(f.year, ry)
                  THEN RAdd(f.yearly_wage, wage_growth) ELSE R(0)
        income == IF PreRetirement(f.year, ry)
                    THEN RAdd(f.yearly_income, wage_growth)
                    ELSE cfg.non_wage_income
        t == NewTotal(f.total, return_rate, income, cfg)
        passive_income == PassiveIncome(t, cfg)
        current_millions == RFloorDiv(t, Million)
        fire == FireCheck(f.fire_achieved, passive_income, cfg)
    IN  [year |-> f.year + 1,
         total |-> t,
         yearly_income |-> income,
         yearly_wage |-> wage,
         wealth_data |-> Append(f.wealth_data, <<YearIndex(f.year), t>>),
         income_data |->
             Append(f.income_data, <<YearIndex(f.year), passive_income>>),
         breakeven_year |->
             IF fire THEN YearIndex(f.year) ELSE f.breakeven_year,
         fire_achieved |-> IF fire THEN TRUE ELSE f.fire_achieved,
         last_million_milestone |->
             IF current_millions > f.last_million_milestone
               THEN current_millions ELSE f.last_million_milestone]

Frame ==
    [year |-> year, total |-> total, yearly_income |-> yearly_income,
     yearly_wage |-> yearly_wage, wealth_data |-> wealth_data,
     income_data |-> income_data, breakeven_year |-> breakeven_year,
     fire_achieved |-> fire_achieved,
     last_million_milestone |-> last_million_milestone]

SetFrame(f) ==
    /\ year' = f.year
    /\ total' = f.total
    /\ yearly_income' = f.yearly_income
    /\ yearly_wage' = f.yearly_wage
    /\ wealth_data' = f.wealth_data
    /\ income_data' = f.income_data
    /\ breakeven_year' = f.breakeven_year
    /\ fire_achieved' = f.fire_achieved
    /\ last_million_milestone' = f.last_million_milestone

\* lines 85-126 as a function: the locals at the end of a whole run
RECURSIVE Run(_, _, _, _, _)
Run(f, cfg, ny, ry, cr) ==
    IF f.year < ny THEN Run(LoopBody(f, cfg, ry, cr), cfg, ny, ry, cr) ELSE f

\* the iterations of a run that the model explores
Explored(ny, y) == ny <= MaxYears \/ y < RefIters

(***************************************************************************)
(* Initial states: a constructed calculator and the arguments of one call. *)
(***************************************************************************)
\* the calls of one generator run each: two of them are modelled
Calls == {1, 2}

\* no generator call made: default arguments, random source untouched
GenIdle ==
    /\ initial_return = <<53, 50>>
    /\ phi = <<49, 50>>
    /\ sigma = <<1, 200>>
    /\ rng = [seed |-> 0, pos |-> 0]
    /\ gen_pc = [c \in Calls |-> "idle"]
    /\ deviations = [c \in Calls |-> <<>>]
    /\ returns = [c \in Calls |-> <<>>]
    /\ entry_rng = [c \in Calls |-> [seed |-> 0, pos |-> 0]]

\* the milestone scan not started
ScanIdle ==
    /\ last_million = 0
    /\ milestones = <<>>
    /\ index = 0

\* calculate_fire_trajectory not entered
LocalsIdle ==
    /\ error = ""
    /\ year = 0
    /\ total = R(0)
    /\ yearly_income = R(0)
    /\ yearly_wage = R(0)
    /\ wealth_data = <<>>
    /\ income_data = <<>>
    /\ breakeven_year = -1
    /\ fire_achieved = FALSE
    /\ last_million_milestone = 0

Init ==
    /\ \/ /\ config \in Configs
          /\ num_years \in 0..MaxYears
          /\ retirement_year \in 0..(MaxYears + 1)
          /\ custom_returns \in CustomReturnsChoices
       \/ /\ config = ReferenceConfig
          /\ num_years = ReferenceNumYears
          /\ retirement_year = ReferenceRetirementYear
          /\ custom_returns = NoCustomReturns
    /\ pc = "call"
    /\ GenIdle
    /\ ScanIdle
    /\ error = ""
    /\ year = 0
    /\ total = R(0)
    /\ yearly_income = R(0)
    /\ yearly_wage = R(0)
    /\ wealth_data = <<>>
    /\ income_data = <<>>
    /\ breakeven_year = -1
    /\ fire_achieved = FALSE
    /\ last_million_milestone = 0

(***************************************************************************)
(* Actions.                                                                *)
(***************************************************************************)
\* lines 72-73: raise ValueError
Reject ==
    /\ pc = "call"
    /\ InvalidParameters(num_years, retirement_year)
    /\ pc' = "raised"
    /\ error' = "ValueError"
    /\ UNCHANGED <<args, locals, gen, scan>>

\* lines 75-83: set up the locals and enter the loop
Enter ==
    /\ pc = "call"
    /\ ~InvalidParameters(num_years, retirement_year)
    /\ pc' = "loop"
    /\ SetFrame(EntryFrame(config))
    /\ UNCHANGED <<args, error, gen, scan>>

\* lines 85-121: one loop iteration
Iterate ==
    /\ pc = "loop"
    /\ year < num_years
    /\ Explored(num_years, year)
    /\ ~IndexOutOfRange(custom_returns, year)
    /\ SetFrame(LoopBody(Frame, config, retirement_year, custom_returns))
    /\ UNCHANGED <<args, pc, error, gen, scan>>

\* line 88: custom_returns[year] past the end of a non-empty list
IndexFail ==
    /\ pc = "loop"
    /\ year < num_years
    /\ IndexOutOfRange(custom_returns, year)
    /\ pc' = "raised"
    /\ error' = "IndexError"
    /\ UNCHANGED <<args, locals, gen, scan>>

\* lines 123-126: the loop is exhausted, the series and breakeven_year return
Return ==
    /\ pc = "loop"
    /\ year >= num_years
    /\ pc' = "returned"
    /\ UNCHANGED <<args, error, locals, gen, scan>>

Next == Reject \/ Enter \/ Iterate \/ IndexFail \/ Return

Spec == Init /\ [][Next]_vars

(***************************************************************************)
(* FIREConfig construction: the dataclass fields, then __post_init__.      *)
(***************************************************************************)
\* constructor arguments, valid and invalid ones
RawConfigs ==
    [yearly_wage : {R(-1), R(0), R(1)},
     monthly_expenses : {<<-1, 4>>, R(0), <<1, 4>>},
     initial_capital : {R(0), R(4)},
     expected_return_rate : {<<-7, 100>>, R(0), <<7, 100>>},
     retirement_safe_withdrawal_rate : {<<-1, 2>>, R(0), <<1, 2>>},
     wage_growth_rate : {R(0), <<1, 2>>},
     non_wage_income : {R(0), R(1)}]

\* variant: a zero expected return rate passes the first check
PostInitInvalid_ZeroRateAccepted(cfg) ==
    \/ RLt(cfg.expected_return_rate, R(0))
    \/ RLeq(cfg.retirement_safe_withdrawal_rate, R(0))
    \/ RLt(cfg.yearly_wage, R(0))
    \/ RLt(cfg.monthly_expenses, R(0))

\* lines 24-31: the four checks of __post_init__
PostInitInvalid(cfg) ==
    \/ RLeq(cfg.expected_return_rate, R(0))
    \/ RLeq(cfg.retirement_safe_withdrawal_rate, R(0))
    \/ RLt(cfg.yearly_wage, R(0))
    \/ RLt(cfg.monthly_expenses, R(0))

InitConfig ==
    /\ config \in RawConfigs
    /\ num_years = 0
    /\ retirement_year = 0
    /\ custom_returns = NoCustomReturns
    /\ pc = "new"
    /\ LocalsIdle
    /\ GenIdle
    /\ ScanIdle

\* lines 24-31: one of the checks raises ValueError, no object is yielded
PostInitRaise ==
    /\ pc = "new"
    /\ PostInitInvalid(config)
    /\ pc' = "raised"
    /\ error' = "ValueError"
    /\ UNCHANGED <<args, locals, gen, scan>>

\* lines 22-31: every check passes, the FIREConfig object is constructed
PostInitAccept ==
    /\ pc = "new"
    /\ ~PostInitInvalid(config)
    /\ pc' = "constructed"
    /\ UNCHANGED <<args, error, locals, gen, scan>>

NextConfig == PostInitRaise \/ PostInitAccept

SpecConfig == InitConfig /\ [][NextConfig]_vars

(***************************************************************************)
(* generate_monte_carlo_returns: the AR(1) generator on the global numpy   *)
(* random source.  The source is a deterministic stream: its state is the  *)
(* seed and the number of draws made since seeding.                        *)
(***************************************************************************)
Seeds == {0, 1, 2}

\* standard normal deviates handed out by the streams
DrawTable == <<0, -60, 2, -1, 1>>

\* the standard normal deviate the source hands out in state r
StandardDraw(r) ==
    DrawTable[((r.seed * 2 + r.pos * (r.seed + 1)) % Len(DrawTable)) + 1]

\* line 158: np.random.normal(0, sg) drawn in state r
NormalDraw(r, sg) == RMul(sg, R(StandardDraw(r)))

\* line 158: the random source after one draw
Advance(r) == [r EXCEPT !.pos = @ + 1]

\* lines 148-150
TargetReturn(cfg) == RAdd(cfg.expected_return_rate, R(1))

\* line 151
InitialDeviation(ir, cfg) == RSub(ir, TargetReturn(cfg))

\* line 159
NewDeviation(ph, last, noise) == RAdd(RMul(ph, last), noise)

\* variant: the loop of line 157 started at 0
MoreDraws_FromZero(devs, ny) == Len(devs) < ny + 1

\* line 157: range(1, num_years) is not exhausted
MoreDraws(devs, ny) == Len(devs) < ny

\* line 166
MinReturn == <<4, 5>>

\* variant: the floor of line 167 left out
Floored_NoFloor(r) == r

\* line 167: max(r, min_return)
Floored(r) == IF RLt(r, MinReturn) THEN MinReturn ELSE r

\* line 163: the returns before the floor
RawReturns(devs, cfg) ==
    [t \in 1..Len(devs) |-> RAdd(devs[t], TargetReturn(cfg))]

\* lines 163-169: the list returned
FlooredReturns(devs, cfg) ==
    [t \in 1..Len(devs) |-> Floored(RawReturns(devs, cfg)[t])]

\* configurations given to the generator, which reads expected_return_rate
GenConfigs ==
    {cfg \in Configs :
        /\ cfg.yearly_wage = R(1)
        /\ cfg.monthly_expenses = <<1, 4>>
        /\ cfg.initial_capital = R(4)
        /\ cfg.retirement_safe_withdrawal_rate = <<1, 2>>
        /\ cfg.wage_growth_rate = R(0)
        /\ cfg.non_wage_income = R(0)}

InitialReturns == {<<53, 50>>, <<107, 100>>, <<3, 2>>, <<1, 2>>}

Phis == {<<49, 50>>, <<1, 2>>}

Sigmas == {R(0), <<1, 200>>}

\* a calculator, the arguments of the generator calls, a seeded source
InitGen ==
    /\ config \in GenConfigs
    /\ num_years \in 0..MaxYears
    /\ retirement_year = 1
    /\ custom_returns = NoCustomReturns
    /\ pc = "constructed"
    /\ LocalsIdle
    /\ ScanIdle
    /\ initial_return \in InitialReturns
    /\ phi \in Phis
    /\ sigma \in Sigmas
    /\ \E s \in Seeds : rng = [seed |-> s, pos |-> 0]
    /\ gen_pc = [c \in Calls |-> "idle"]
    /\ deviations = [c \in Calls |-> <<>>]
    /\ returns = [c \in Calls |-> <<>>]
    /\ entry_rng = [c \in Calls |-> [seed |-> 0, pos |-> 0]]

trajectory == <<pc, error, locals>>

\* lines 147-154: call c starts with the deviation of the initial return
GenStart(c) ==
    /\ gen_pc[c] = "idle"
    /\ gen_pc' = [gen_pc EXCEPT ![c] = "draw"]
    /\ deviations' =
          [deviations EXCEPT ![c] = <<InitialDeviation(initial_return, config)>>]
    /\ entry_rng' = [entry_rng EXCEPT ![c] = rng]
    /\ UNCHANGED <<args, trajectory, scan, initial_return, phi, sigma, rng,
                   returns>>

\* lines 157-160: one iteration, one draw from the global source
GenDraw(c) ==
    /\ gen_pc[c] = "draw"
    /\ MoreDraws(deviations[c], num_years)
    /\ deviations' =
          [deviations EXCEPT ![c] =
              Append(@, NewDeviation(phi, @[Len(@)], NormalDraw(rng, sigma)))]
    /\ rng' = Advance(rng)
    /\ UNCHANGED <<args, trajectory, scan, initial_return, phi, sigma, gen_pc,
                   returns, entry_rng>>

\* lines 162-169: recentre, floor and return
GenFinish(c) ==
    /\ gen_pc[c] = "draw"
    /\ ~MoreDraws(deviations[c], num_years)
    /\ returns' = [returns EXCEPT ![c] = FlooredReturns(deviations[c], config)]
    /\ gen_pc' = [gen_pc EXCEPT ![c] = "done"]
    /\ UNCHANGED <<args, trajectory, scan, initial_return, phi, sigma, rng,
                   deviations, entry_rng>>

\* the caller reseeds the global source between two calls
Reseed ==
    /\ gen_pc[1] = "done"
    /\ gen_pc[2] = "idle"
    /\ \E s \in Seeds : rng' = [seed |-> s, pos |-> 0]
    /\ UNCHANGED <<args, trajectory, scan, initial_return, phi, sigma, gen_pc,
                   deviations, returns, entry_rng>>

\* one call after the other
FirstCall == GenStart(1) \/ GenDraw(1) \/ GenFinish(1)

SecondCall ==
    /\ gen_pc[1] = "done"
    /\ GenStart(2) \/ GenDraw(2) \/ GenFinish(2)

NextGen == FirstCall \/ Reseed \/ SecondCall

SpecGen == InitGen /\ [][NextGen]_vars

(***************************************************************************)
(* Monte Carlo runs (plot_monte_carlo_simulation, lines 151-162) executed  *)
(* by concurrent workers: every run draws from the one global source.      *)
(***************************************************************************)
\* lines 153-155 of src/visualizations.py: a step of the generator call of run c
MonteCarloRun(c) == GenStart(c) \/ GenDraw(c) \/ GenFinish(c)

NextMonteCarlo == \E c \in Calls : MonteCarloRun(c)

SpecMonteCarlo == InitGen /\ [][NextMonteCarlo]_vars

\* lines 157-169 as a function: the list a call returns when it alone draws
\* from the source, from the deviations devs and the source state r on
RECURSIVE GenerateAlone(_, _)
GenerateAlone(devs, r) ==
    IF MoreDraws(devs, num_years)
      THEN GenerateAlone(
               Append(devs, NewDeviation(phi, devs[Len(devs)],
                                         NormalDraw(r, sigma))),
               Advance(r))
      ELSE FlooredReturns(devs, config)

(***************************************************************************)
(* src/app.py: the trajectory of the sidebar configuration (lines 191-193) *)
(* and the scan of wealth_df for million milestones (lines 310-324).       *)
(***************************************************************************)
\* sidebar configurations with wealth in the millions
AppConfigs ==
    [yearly_wage : {R(0), R(600000), R(2500000)},
     monthly_expenses : {R(0), R(50000)},
     initial_capital : {R(0), R(500000), R(1200000)},
     expected_return_rate : {<<1, 2>>},
     retirement_safe_withdrawal_rate : {<<1, 2>>},
     wage_growth_rate : {R(0)},
     non_wage_income : {R(0)}]

\* lines 139-155, 191-193: retirement_year is limited to 1..num_years
InitApp ==
    /\ config \in AppConfigs
    /\ num_years \in 1..MaxYears
    /\ retirement_year \in 1..num_years
    /\ custom_returns = NoCustomReturns
    /\ pc = "call"
    /\ LocalsIdle
    /\ GenIdle
    /\ ScanIdle

\* lines 311, 315: total // 1_000_000
Millions(t) == RFloorDiv(t, Million)

\* lines 311-312: the baseline is the first row of wealth_df
ScanStart ==
    /\ pc = "returned"
    /\ wealth_data # <<>>
    /\ pc' = "scan"
    /\ last_million' = Millions(wealth_data[1][2])
    /\ milestones' = <<>>
    /\ index' = 0
    /\ UNCHANGED <<args, error, locals, gen>>

\* lines 314-324: one row of wealth_df
ScanRow ==
    /\ pc = "scan"
    /\ index < Len(wealth_data)
    /\ LET row == wealth_data[index + 1]
           current_millions == Millions(row[2])
       IN  IF current_millions > last_million
             THEN /\ milestones' =
                        Append(milestones,
                               [year |-> row[1],
                                millions |-> current_millions,
                                total |-> row[2]])
                  /\ last_million' = current_millions
             ELSE UNCHANGED <<milestones, last_million>>
    /\ index' = index + 1
    /\ UNCHANGED <<args, pc, error, locals, gen>>

\* line 326: every row scanned
ScanDone ==
    /\ pc = "scan"
    /\ index >= Len(wealth_data)
    /\ pc' = "scanned"
    /\ UNCHANGED <<args, error, locals, gen, scan>>

NextApp == Enter \/ Iterate \/ Return \/ ScanStart \/ ScanRow \/ ScanDone

SpecApp == InitApp /\ [][NextApp]_vars

(***************************************************************************)
(* Properties of calculate_fire_trajectory.                                *)
(***************************************************************************)
ValidRun == 1 <= retirement_year /\ retirement_year <= num_years

\* breakeven condition of year i on the recorded passive income
CoversExpenses(i) ==
    RLeq(yearly_expenses(config),
         RAdd(income_data[i][2], config.non_wage_income))

\* C1: a run with 1 <= retirement_year <= num_years returns a wealth series
\* and an income series of exactly num_years entries each, whose year
\* indices are 1, 2, ..., num_years in increasing order, the same index at
\* the same position of both series.
C1_SeriesLengthAndOrder ==
    (pc = "returned" /\ ValidRun) =>
        /\ Len(wealth_data) = num_years
        /\ Len(income_data) = num_years
        /\ \A i \in 1..num_years :
              wealth_data[i][1] = i /\ income_data[i][1] = i

C1_Witness ==
    /\ pc = "returned"
    /\ ValidRun
    /\ num_years >= 2
    /\ Len(wealth_data) = num_years

\* C2: the breakeven_year returned is the smallest year y of 1..num_years
\* with passive_income[y] + non_wage_income >= yearly_expenses (non-strict),
\* where passive_income[y] = wealth[y] * safe_withdrawal_rate, and it is -1
\* exactly when no year of the horizon satisfies the condition.
C2_BreakevenIsFirstYear ==
    (pc = "returned") =>
        /\ \A i \in 1..Len(income_data) :
              income_data[i][2] =
                  RMul(wealth_data[i][2],
                       config.retirement_safe_withdrawal_rate)
        /\ (breakeven_year = -1) <=>
              (\A i \in 1..num_years : ~CoversExpenses(i))
        /\ (breakeven_year # -1) =>
              /\ breakeven_year \in 1..num_years
              /\ CoversExpenses(breakeven_year)
              /\ \A j \in 1..(breakeven_year - 1) : ~CoversExpenses(j)

C2_Witness ==
    /\ pc = "returned"
    /\ breakeven_year >= 2
    /\ \E i \in 1..num_years : i > breakeven_year /\ CoversExpenses(i)

\* C3: the breakeven latch is one-shot: once breakeven_year has been set to a
\* year, no later step changes it, also when passive income plus non-wage
\* income has fallen back below the yearly expenses.
C3_BreakevenLatch ==
    [][(breakeven_year # -1) => (breakeven_year' = breakeven_year)]_vars

C3_Witness ==
    /\ breakeven_year >= 1
    /\ \E i \in 1..Len(income_data) :
          breakeven_year < i /\ ~CoversExpenses(i)

\* C4: employment stops exactly at year retirement_year and never resumes:
\* after every year y >= retirement_year the running wage is 0 and the income
\* term of that year's wealth update is exactly non_wage_income; after every
\* year y < retirement_year the running wage is the employment wage grown y
\* times.
C4_RetirementTransition ==
    (pc \in {"loop", "returned"} /\ year >= 1) =>
        /\ (year >= retirement_year) =>
              /\ yearly_wage = R(0)
              /\ yearly_income = config.non_wage_income
        /\ (year < retirement_year) =>
              yearly_wage =
                  RMul(config.yearly_wage,
                       RPow(RAdd(R(1), config.wage_growth_rate), year))
        /\ \A y \in 1..Len(wealth_data) :
              (y >= retirement_year) =>
                  LET prev == IF y = 1 THEN config.initial_capital
                                       ELSE wealth_data[y - 1][2]
                      rate == IF custom_returns.given
                                   /\ Len(custom_returns.list) > 0
                                THEN custom_returns.list[y]
                                ELSE config.expected_return_rate
                  IN  RSub(RSub(wealth_data[y][2], prev), RMul(prev, rate)) =
                          RSub(config.non_wage_income,
                               yearly_expenses(config))

C4_Witness ==
    /\ pc = "loop"
    /\ ValidRun
    /\ year = retirement_year
    /\ retirement_year >= 2
    /\ yearly_wage = R(0)
    /\ config.yearly_wage # R(0)
    /\ config.wage_growth_rate # R(0)

\* C5: wage growth is applied in exactly the years y with
\* 1 <= y < retirement_year: in such a year wage and income both grow by
\* wage * wage_growth_rate, in every other year the wage is set to 0 and the
\* income to non_wage_income.  With retirement_year = num_years the growth
\* years are 1..num_years-1 and the last year is the retirement year; with
\* retirement_year = 1 no year has growth.
C5_WageGrowthYears ==
    [][(pc = "loop" /\ year' = year + 1) =>
          LET growth == RMul(yearly_wage, config.wage_growth_rate) IN
          IF 1 <= year' /\ year' < retirement_year
            THEN /\ yearly_wage' = RAdd(yearly_wage, growth)
                 /\ yearly_income' = RAdd(yearly_income, growth)
            ELSE /\ yearly_wage' = R(0)
                 /\ yearly_income' = config.non_wage_income]_vars

C5_Witness ==
    /\ pc = "returned"
    /\ retirement_year = num_years
    /\ num_years >= 3
    /\ config.yearly_wage # R(0)
    /\ config.wage_growth_rate # R(0)
    /\ yearly_wage = R(0)

IsReferenceRun ==
    /\ config = ReferenceConfig
    /\ num_years = ReferenceNumYears
    /\ retirement_year = ReferenceRetirementYear
    /\ ~custom_returns.given

\* C6 as stated: in the reference run of main() (30 years, retirement in year
\* 15) the year-1 wealth is 85500 and the year-1 passive income is 2992.5.
C6_Year1WithoutWageGrowth ==
    (IsReferenceRun /\ Len(wealth_data) >= 1) =>
        /\ wealth_data[1] = <<1, R(85500)>>
        /\ income_data[1] = <<1, <<5985, 2>>>>

\* C6: in the reference run of main() the wage has already grown by 2% when
\* year 1 is computed: the year-1 wealth is
\* 50000 + 50000*0.07 + 80000*1.02 - 48000 = 87100 and the year-1 passive
\* income is 87100 * 0.035 = 3048.5.
C6_Year1WithWageGrowth ==
    (IsReferenceRun /\ Len(wealth_data) >= 1) =>
        /\ wealth_data[1] = <<1, R(87100)>>
        /\ income_data[1] = <<1, <<6097, 2>>>>

C6_Witness ==
    /\ IsReferenceRun
    /\ pc = "loop"
    /\ year = 1
    /\ Len(wealth_data) = 1
    /\ yearly_wage = R(81600)

\* final wealth of the same run given custom_returns = num_years zeros
ZeroRunTotal ==
    Run(EntryFrame(config), config, num_years, retirement_year,
        ZeroReturns(num_years)).total

RECURSIVE WealthSum(_)
WealthSum(k) ==
    IF k <= 0 THEN R(0) ELSE RAdd(WealthSum(k - 1), wealth_data[k][2])

\* wealth at the start of every year of the run, summed over the horizon
StartOfYearWealth == RAdd(config.initial_capital, WealthSum(num_years - 1))

DefaultRateRunReturned ==
    /\ pc = "returned"
    /\ ValidRun
    /\ ~custom_returns.given
    /\ config.expected_return_rate = <<7, 100>>

\* C7 as stated: with expected_return_rate = 0.07, the run given num_years
\* zeros as custom_returns ends with strictly lower final wealth than the run
\* given no custom_returns, whatever the other parameters.
C7_ZeroReturnsAlwaysLower ==
    DefaultRateRunReturned => RLt(ZeroRunTotal, total)

\* C7: with expected_return_rate = 0.07, the final wealth of the run given
\* num_years zeros is lower than that of the default-rate run by exactly 0.07
\* times the default run's start-of-year wealth summed over the horizon
\* (initial_capital and the wealth of years 1..num_years-1): strictly lower
\* exactly when that sum is positive, equal when it is zero, higher when it
\* is negative.
C7_ZeroReturnsLowerIffPositiveWealth ==
    DefaultRateRunReturned =>
        /\ RSub(total, ZeroRunTotal) = RMul(<<7, 100>>, StartOfYearWealth)
        /\ RLt(ZeroRunTotal, total) <=> RLt(R(0), StartOfYearWealth)
        /\ RLt(total, ZeroRunTotal) <=> RLt(StartOfYearWealth, R(0))

C7_Witness ==
    /\ DefaultRateRunReturned
    /\ num_years >= 2
    /\ RLt(R(0), StartOfYearWealth)
    /\ RLt(ZeroRunTotal, total)

\* C8: a call with retirement_year > num_years raises the invalid-parameters
\* error (ValueError) before any year is simulated: it produces no series
\* entry, returns no breakeven value and leaves the configuration unchanged.
C8_RetirementAfterHorizonRejected ==
    [][(retirement_year > num_years) =>
          /\ pc' = "raised"
          /\ error' = "ValueError"
          /\ wealth_data' = <<>>
          /\ income_data' = <<>>
          /\ breakeven_year' = -1
          /\ config' = config]_vars

C8_Witness ==
    /\ pc = "raised"
    /\ error = "ValueError"
    /\ retirement_year = num_years + 1
    /\ num_years >= 1
    /\ wealth_data = <<>>

\* C9: a call with retirement_year < 1 or num_years < 1 raises the
\* invalid-parameters error (ValueError); it neither simulates a year nor
\* returns series.
C9_NonPositiveParametersRejected ==
    (retirement_year < 1 \/ num_years < 1) =>
        /\ pc # "returned"
        /\ wealth_data = <<>>
        /\ (pc = "raised") => (error = "ValueError")

\* C10: a call with a custom_returns list whose length differs from num_years
\* (shorter, longer or empty) raises the invalid-parameters error (ValueError)
\* before any year is simulated: it never returns a trajectory and never
\* fails part-way through the loop.
C10_ReturnsLengthMismatchRejected ==
    (custom_returns.given /\ Len(custom_returns.list) # num_years) =>
        /\ pc # "returned"
        /\ wealth_data = <<>>
        /\ (pc = "raised") => (error = "ValueError")

\* C15: in every simulated year the wealth update is exactly
\* wealth_new = wealth_old + wealth_old * return_rate + income - expenses,
\* with return_rate = custom_returns[y-1] when a (non-empty) list is supplied
\* and expected_return_rate otherwise; the result is recorded unclamped, so
\* negative wealth stays negative, compounds at the year's rate and yields a
\* negative passive income.
C15_WealthUpdateUnclamped ==
    [][(pc = "loop" /\ year' = year + 1) =>
          LET return_rate ==
                  IF custom_returns.given /\ custom_returns.list # <<>>
                    THEN custom_returns.list[year']
                    ELSE config.expected_return_rate
              wealth_new ==
                  RSub(RAdd(RAdd(total, RMul(total, return_rate)),
                            yearly_income'),
                       yearly_expenses(config))
          IN  /\ total' = wealth_new
              /\ wealth_data' = Append(wealth_data, <<year', wealth_new>>)
              /\ income_data' =
                    Append(income_data,
                           <<year', RMul(wealth_new,
                                 config.retirement_safe_withdrawal_rate)>>)]_vars

C15_Witness ==
    /\ Len(wealth_data) >= 2
    /\ RLt(wealth_data[1][2], R(0))
    /\ year = 2
    /\ RLt(RSub(wealth_data[2][2], wealth_data[1][2]),
           RSub(yearly_income, yearly_expenses(config)))
    /\ RLt(income_data[2][2], R(0))
    /\ total = wealth_data[Len(wealth_data)][2]

(***************************************************************************)
(* Properties of FIREConfig construction.                                  *)
(***************************************************************************)
\* C11: constructing a FIREConfig with expected_return_rate <= 0,
\* retirement_safe_withdrawal_rate <= 0, yearly_wage < 0 or
\* monthly_expenses < 0 raises the configuration error (ValueError) and
\* yields no configuration object; expected_return_rate = 0 is rejected.
C11_InvalidConfigRejected ==
    (\/ config.expected_return_rate[1] <= 0
     \/ config.retirement_safe_withdrawal_rate[1] <= 0
     \/ config.yearly_wage[1] < 0
     \/ config.monthly_expenses[1] < 0) =>
        /\ pc # "constructed"
        /\ (pc # "new") => (pc = "raised" /\ error = "ValueError")

C11_Witness ==
    /\ pc = "raised"
    /\ error = "ValueError"
    /\ config.expected_return_rate = R(0)
    /\ config.retirement_safe_withdrawal_rate = <<1, 2>>
    /\ config.yearly_wage = R(1)
    /\ config.monthly_expenses = <<1, 4>>

(***************************************************************************)
(* Properties of generate_monte_carlo_returns.                             *)
(***************************************************************************)
\* the floor of -20% as a rate
RateFloor == <<-1, 5>>

\* the returns in the unit of expected_return_rate
RateReturns(c) ==
    [t \in 1..Len(deviations[c]) |->
        LET r == RAdd(deviations[c][t], config.expected_return_rate)
        IN  IF RLt(r, RateFloor) THEN RateFloor ELSE r]

\* C12: the generator returns rates in the unit of expected_return_rate:
\* return[t] = deviation[t] + expected_return_rate (floored at -20%), with
\* deviation[0] = initial_return - (1 + expected_return_rate); with zero
\* noise and initial_return = 1 + expected_return_rate every element is
\* expected_return_rate, and as custom_returns it gives the wealth update of
\* the default-rate run.
C12_ReturnsInRateUnit ==
    \A c \in Calls :
        (gen_pc[c] = "done" /\ num_years >= 1) =>
            /\ deviations[c][1] =
                  RSub(initial_return, RAdd(R(1), config.expected_return_rate))
            /\ returns[c] = RateReturns(c)
            /\ (sigma = R(0)
                  /\ initial_return = RAdd(R(1), config.expected_return_rate)) =>
                  /\ \A t \in 1..Len(returns[c]) :
                        returns[c][t] = config.expected_return_rate
                  /\ NewTotal(config.initial_capital, returns[c][1],
                              config.non_wage_income, config) =
                     NewTotal(config.initial_capital,
                              config.expected_return_rate,
                              config.non_wage_income, config)

\* C13: every element of the list returned is >= the floor min_return (0.8,
\* a real return of -20%), and an element that was at or above the floor
\* before flooring is returned unchanged, however large.
C13_ReturnsFloored ==
    \A c \in Calls :
        (gen_pc[c] = "done") =>
            /\ Len(returns[c]) = Len(deviations[c])
            /\ \A t \in 1..Len(returns[c]) :
                  LET raw == RAdd(deviations[c][t],
                                  RAdd(config.expected_return_rate, R(1)))
                  IN  /\ RLeq(MinReturn, returns[c][t])
                      /\ RLeq(MinReturn, raw) => (returns[c][t] = raw)

C13_Witness ==
    \E c \in Calls :
        /\ gen_pc[c] = "done"
        /\ \E t, u \in 1..Len(returns[c]) :
              /\ RLt(RAdd(deviations[c][t],
                          RAdd(config.expected_return_rate, R(1))), MinReturn)
              /\ returns[c][t] = MinReturn
              /\ RLt(R(1), returns[c][u])

\* C14: the generator is deterministic in the random source and its
\* arguments: two calls entered with the random source in the same state
\* return identical lists; a call with num_years >= 1 leaves the source
\* exactly num_years - 1 draws further and changes nothing else.
C14_GeneratorDeterministic ==
    [][/\ (gen_pc'[1] = "done" /\ gen_pc'[2] = "done"
              /\ entry_rng'[1] = entry_rng'[2]) => (returns'[1] = returns'[2])
       /\ \A c \in Calls :
             (gen_pc[c] = "draw" /\ gen_pc'[c] = "done" /\ num_years >= 1) =>
                 /\ rng' = [entry_rng[c] EXCEPT !.pos = @ + num_years - 1]
                 /\ Len(returns'[c]) = num_years
                 /\ UNCHANGED <<args, trajectory, scan, initial_return, phi,
                                sigma>>
                 /\ \A o \in Calls \ {c} :
                       /\ returns'[o] = returns[o]
                       /\ deviations'[o] = deviations[o]]_vars

C14_Witness ==
    /\ gen_pc[1] = "done"
    /\ gen_pc[2] = "done"
    /\ entry_rng[1] = entry_rng[2]
    /\ num_years >= 3
    /\ sigma # R(0)
    /\ returns[1] = returns[2]
    /\ returns[1][2] # returns[1][3]
    /\ rng.pos = num_years - 1

(***************************************************************************)
(* Properties of the Monte Carlo runs.                                     *)
(***************************************************************************)
\* C16: the Monte Carlo runs are independent: under any interleaving of the
\* runs, the return sequence of every run (and so the trajectory computed
\* from it) is the one the run produces when it executes alone from the
\* random stream it started with.
C16_RunsIndependent ==
    \A c \in Calls :
        (gen_pc[c] = "done") =>
            returns[c] =
                GenerateAlone(<<InitialDeviation(initial_return, config)>>,
                              entry_rng[c])

(***************************************************************************)
(* Properties of the milestone scan.                                       *)
(***************************************************************************)
\* the multiples of a million that the wealth series reaches
ReachedMultiples ==
    UNION {1..RFloorDiv(wealth_data[y][2], Million) :
               y \in 1..Len(wealth_data)}

\* the first year in which the wealth is at least k million
FirstYearAtLeast(k) ==
    CHOOSE y \in 1..Len(wealth_data) :
        /\ RLeq(R(k * Million), wealth_data[y][2])
        /\ \A z \in 1..(y - 1) : RLt(wealth_data[z][2], R(k * Million))

\* C17: the milestone scan reports every crossing of a multiple of 1,000,000:
\* for every k >= 1 that the wealth, starting below k million at
\* initial_capital, first reaches in some year of the horizon, a milestone
\* of k million is reported with that year; this includes a crossing in
\* year 1 and several multiples crossed in one year.
C17_EveryMillionReported ==
    (pc = "scanned") =>
        \A k \in ReachedMultiples :
            RLt(config.initial_capital, R(k * Million)) =>
                \E i \in 1..Len(milestones) :
                    /\ milestones[i].millions = k
                    /\ milestones[i].year = FirstYearAtLeast(k)

====
